---- MODULE Spec2Model ----
(***************************************************************************)
(* Customer ledger (src/src/app/page.tsx): the CustomerLedger component.   *)
(*                                                                         *)
(* State: the two React state hooks `customers` and `transactions`, the   *)
(* updater functions queued on each hook by a handler and applied by the   *)
(* next render, the passive effects a commit leaves to run (load, save     *)
(* customers, save transactions), the two localStorage keys, the clock     *)
(* Date.now(), the notification the last handler call showed and the       *)
(* document exportData last handed to the download.                        *)
(*                                                                         *)
(* Numbers are JavaScript numbers restricted to integers plus NaN; the     *)
(* incremental balance and a left-to-right recompute perform the same      *)
(* additions in the same order, so rounding cannot tell them apart.        *)
(* The free-text fields phone, email, address, notes and description are   *)
(* copied from the form and never read by a handler; they are left out.    *)
(* The handlers are modelled on the FormData a submit event carries. The   *)
(* `required` attributes of the form belong to the markup and a submit     *)
(* event dispatched by script reaches the handler without them, so Spec    *)
(* fills the forms in as the markup asks (a name, a positive amount, any   *)
(* customer id), SpecNames also submits an empty name and SpecAmounts any  *)
(* amount the field can carry.                                             *)
(***************************************************************************)
EXTENDS Integers, Sequences, FiniteSets, TLC

VARIABLES customers, transactions, pendingCustomers, pendingTransactions,
          effects, storage, now, notice, exported

vars == <<customers, transactions, pendingCustomers, pendingTransactions,
          effects, storage, now, notice, exported>>

(* ------------------------------ bounds -------------------------------- *)
MaxCustomers == 2
MaxTransactions == 2
MaxClock == 2

(* --------------------------- JavaScript values ------------------------ *)
\* NaN, kept apart from every number the model computes with.
NaN == -1000
\* JSON null, what JSON.stringify writes for NaN.
Null == -2000
\* Milliseconds per calendar day, scaled down.
DayLen == 2

IsNaN(x) == x = NaN
IsNum(x) == x # NaN /\ x # Null

\* x + y and x - y of JavaScript numbers.
Plus(x, y) == IF IsNaN(x) \/ IsNaN(y) THEN NaN ELSE x + y
Minus(x, y) == IF IsNaN(x) \/ IsNaN(y) THEN NaN ELSE x - y

\* x === y of JavaScript numbers: NaN equals nothing, itself included.
NumEq(x, y) == ~IsNaN(x) /\ ~IsNaN(y) /\ x = y

\* The strings a number field of the form can carry.
NumberStrings == {"", "0", "-3", "2", "5"}

\* parseFloat(s) on those strings.
parseFloat(s) ==
  CASE s = "" -> NaN
    [] s = "0" -> 0
    [] s = "-3" -> -3
    [] s = "2" -> 2
    [] s = "5" -> 5

\* x || 0 : NaN and 0 are falsy.
OrZero(x) == IF IsNaN(x) \/ x = 0 THEN 0 ELSE x

\* Date.now().toString()
IdOf(t) == ToString(t)

\* new Date().toLocaleDateString() and new Date().toISOString().split('T')[0]:
\* the calendar day of the reading.
LocaleDate(t) == t \div DayLen
IsoDate(t) == t \div DayLen

\* The empty string of an unset date field.
NoDate == -1

(* ------------------------------ inputs -------------------------------- *)
Names == {"", "A"}
OpeningInputs == {"", "5"}
AmountInputs == {"", "0", "-3", "2"}
Types == {"debit", "credit"}
DateInputs == {NoDate}
CustomerIdInputs == {""} \cup {IdOf(t) : t \in 0..MaxClock}

(* --------------------------- array helpers ---------------------------- *)
\* prev.filter(c => c.id !== customerId)
FilterCustomers(prev, customerId) ==
  LET keep(c) == c.id # customerId IN SelectSeq(prev, keep)

\* FilterTransactions comparing the transaction's own id.
FilterTransactionsById(prev, customerId) ==
  LET keep(t) == t.id # customerId IN SelectSeq(prev, keep)

\* prev.filter(t => t.customerId !== customerId)
FilterTransactions(prev, customerId) ==
  LET keep(t) == t.customerId # customerId IN SelectSeq(prev, keep)

\* MapBalance writing the new balance into openingBalance as well.
MapBalanceMovesOpening(prev, customerId, newBalance, date) ==
  [i \in 1..Len(prev) |->
     IF prev[i].id = customerId
       THEN [prev[i] EXCEPT !.balance = newBalance, !.openingBalance = newBalance,
                            !.lastTransaction = date]
       ELSE prev[i]]

\* MapBalance leaving lastTransaction as it was.
MapBalanceKeepDate(prev, customerId, newBalance, date) ==
  [i \in 1..Len(prev) |->
     IF prev[i].id = customerId
       THEN [prev[i] EXCEPT !.balance = newBalance]
       ELSE prev[i]]

\* prev.map(c => c.id === customerId ? {...c, balance, lastTransaction} : c)
MapBalance(prev, customerId, newBalance, date) ==
  [i \in 1..Len(prev) |->
     IF prev[i].id = customerId
       THEN [prev[i] EXCEPT !.balance = newBalance, !.lastTransaction = date]
       ELSE prev[i]]

\* customers.find(c => c.id === customerId): the index of the first match, 0 if none.
FindIndex(cs, customerId) ==
  IF \E i \in 1..Len(cs) : cs[i].id = customerId
    THEN CHOOSE i \in 1..Len(cs) :
           /\ cs[i].id = customerId
           /\ \A j \in 1..(i - 1) : cs[j].id # customerId
    ELSE 0

\* ApplyUpdate with the new element put first instead of last.
ApplyUpdatePrepend(prev, u, t) ==
  CASE u.f = "append" -> <<u.a>> \o prev
    [] u.f = "setBalance" -> MapBalance(prev, u.a.id, u.a.balance, LocaleDate(t))
    [] u.f = "removeCustomer" -> FilterCustomers(prev, u.a)
    [] u.f = "removeTransactions" -> FilterTransactions(prev, u.a)
    [] u.f = "set" -> u.a

\* One queued updater applied to the previous value of its hook.
ApplyUpdate(prev, u, t) ==
  CASE u.f = "append" -> Append(prev, u.a)
    [] u.f = "setBalance" -> MapBalance(prev, u.a.id, u.a.balance, LocaleDate(t))
    [] u.f = "removeCustomer" -> FilterCustomers(prev, u.a)
    [] u.f = "removeTransactions" -> FilterTransactions(prev, u.a)
    [] u.f = "set" -> u.a

\* React applies the queue of a hook in order.
RECURSIVE ApplyQueue(_, _, _)
ApplyQueue(prev, q, t) ==
  IF q = <<>> THEN prev
  ELSE ApplyQueue(ApplyUpdate(prev, Head(q), t), Tail(q), t)

\* JSON.parse(JSON.stringify(v)) of a number: NaN is written as null.
JsonNumber(x) == IF IsNaN(x) THEN Null ELSE x

JsonCustomers(cs) ==
  [i \in 1..Len(cs) |->
     [cs[i] EXCEPT !.openingBalance = JsonNumber(@), !.balance = JsonNumber(@)]]

JsonTransactions(ts) ==
  [i \in 1..Len(ts) |->
     [ts[i] EXCEPT !.amount = JsonNumber(@), !.balance = JsonNumber(@)]]

\* localStorage.getItem(key): null for a key never written, else the text
\* written, modelled by the value it parses to.
Absent == [has |-> FALSE, v |-> <<>>]
Item(v) == [has |-> TRUE, v |-> v]

\* No export on record.
NoExport == [n |-> 0, customers |-> <<>>, transactions |-> <<>>, exportDate |-> 0]

(* ------------------------------- state -------------------------------- *)
Idle == pendingCustomers = <<>> /\ pendingTransactions = <<>> /\ effects = <<>>

\* What localStorage can hold when the page is opened: nothing, or what an
\* earlier session saved.
StoredCustomer ==
  [id |-> IdOf(0), name |-> "A", openingBalance |-> 5, balance |-> 7,
   lastTransaction |-> LocaleDate(0)]
StoredTransaction ==
  [id |-> IdOf(0), customerId |-> IdOf(0), type |-> "debit", amount |-> 2,
   date |-> IsoDate(0), balance |-> 7]
InitialStorage ==
  { [customers |-> Absent, transactions |-> Absent],
    [customers |-> Item(<<StoredCustomer>>),
     transactions |-> Item(<<StoredTransaction>>)] }

Init ==
  /\ customers = <<>>
  /\ transactions = <<>>
  /\ pendingCustomers = <<>>
  /\ pendingTransactions = <<>>
  /\ effects = <<"load", "saveCustomers", "saveTransactions">>
  /\ storage \in InitialStorage
  /\ now = 1
  /\ notice = "none"
  /\ exported = NoExport

(* ------------------------------ handlers ------------------------------ *)
\* handleCustomerSubmit with the balance left at 0 instead of the opening balance.
handleCustomerSubmitZeroBalance(name, opening) ==
  LET newCustomer ==
        [id |-> IdOf(now),
         name |-> name,
         openingBalance |-> OrZero(parseFloat(opening)),
         balance |-> 0,
         lastTransaction |-> LocaleDate(now)]
  IN /\ Idle
     /\ Len(customers) < MaxCustomers
     /\ pendingCustomers' = Append(pendingCustomers, [f |-> "append", a |-> newCustomer])
     /\ notice' = "success"
     /\ UNCHANGED <<customers, transactions, pendingTransactions, effects, storage, now, exported>>

handleCustomerSubmit(name, opening) ==
  LET newCustomer ==
        [id |-> IdOf(now),
         name |-> name,
         openingBalance |-> OrZero(parseFloat(opening)),
         balance |-> OrZero(parseFloat(opening)),
         lastTransaction |-> LocaleDate(now)]
  IN /\ Idle
     /\ Len(customers) < MaxCustomers
     /\ pendingCustomers' = Append(pendingCustomers, [f |-> "append", a |-> newCustomer])
     /\ notice' = "success"
     /\ UNCHANGED <<customers, transactions, pendingTransactions, effects, storage, now, exported>>

\* The body of handleTransactionSubmit, run on the `customers` of the last
\* render whatever updates wait for the next one.
submitTransaction(customerId, type, amountInput, dateInput) ==
  LET amount == parseFloat(amountInput)
      date == IF dateInput = NoDate THEN IsoDate(now) ELSE dateInput
      k == FindIndex(customers, customerId)
      newBalance == IF type = "debit"
                      THEN Plus(customers[k].balance, amount)
                      ELSE Minus(customers[k].balance, amount)
      newTransaction ==
        [id |-> IdOf(now), customerId |-> customerId, type |-> type,
         amount |-> amount, date |-> date, balance |-> newBalance]
  IN /\ effects = <<>>
     /\ k # 0 => Len(transactions) + Len(pendingTransactions) < MaxTransactions
     /\ IF k = 0
          THEN /\ notice' = "none"
               /\ UNCHANGED <<pendingCustomers, pendingTransactions>>
          ELSE /\ pendingTransactions' =
                    Append(pendingTransactions, [f |-> "append", a |-> newTransaction])
               /\ pendingCustomers' =
                    Append(pendingCustomers,
                           [f |-> "setBalance",
                            a |-> [id |-> customerId, balance |-> newBalance]])
               /\ notice' = "success"
     /\ UNCHANGED <<customers, transactions, effects, storage, now, exported>>

\* A submit event is handled after the render of the one before it.
handleTransactionSubmit(customerId, type, amountInput, dateInput) ==
  /\ Idle
  /\ submitTransaction(customerId, type, amountInput, dateInput)

\* deleteCustomer without the cascade to the customer's transactions.
deleteCustomerNoCascade(customerId) ==
  /\ Idle
  /\ \E i \in 1..Len(customers) : customers[i].id = customerId
  /\ pendingCustomers' = Append(pendingCustomers, [f |-> "removeCustomer", a |-> customerId])
  /\ notice' = "success"
  /\ UNCHANGED <<customers, transactions, pendingTransactions, effects, storage, now, exported>>

deleteCustomer(customerId) ==
  /\ Idle
  /\ \E i \in 1..Len(customers) : customers[i].id = customerId
  /\ pendingCustomers' = Append(pendingCustomers, [f |-> "removeCustomer", a |-> customerId])
  /\ pendingTransactions' =
       Append(pendingTransactions, [f |-> "removeTransactions", a |-> customerId])
  /\ notice' = "success"
  /\ UNCHANGED <<customers, transactions, effects, storage, now, exported>>

\* new Date().toISOString(): the reading itself.
IsoTime(t) == t

\* exportData stamping every exported customer with the day of the export.
exportDataStamped ==
  /\ Idle
  /\ exported' = [n |-> IF exported.n < 2 THEN exported.n + 1 ELSE exported.n,
                  customers |-> [i \in 1..Len(customers) |->
                                   [JsonCustomers(customers)[i] EXCEPT
                                      !.lastTransaction = LocaleDate(now)]],
                  transactions |-> JsonTransactions(transactions),
                  exportDate |-> IsoTime(now)]
  /\ notice' = "success"
  /\ UNCHANGED <<customers, transactions, pendingCustomers, pendingTransactions,
                 effects, storage, now>>

exportData ==
  /\ Idle
  /\ exported' = [n |-> IF exported.n < 2 THEN exported.n + 1 ELSE exported.n,
                  customers |-> JsonCustomers(customers),
                  transactions |-> JsonTransactions(transactions),
                  exportDate |-> IsoTime(now)]
  /\ notice' = "success"
  /\ UNCHANGED <<customers, transactions, pendingCustomers, pendingTransactions,
                 effects, storage, now>>

(* ------------------------- render and effects ------------------------- *)
\* The render React runs after a handler or an effect queued updates: each
\* hook's queue is applied in order, and an effect is left to run for every
\* hook whose value is a new array. The export on record is the one taken
\* from the collections as they are: a render that replaces them drops it.
\* Render with the save-transactions effect left out of the schedule.
RenderNoTransactionsSave ==
  /\ effects = <<>>
  /\ pendingCustomers # <<>> \/ pendingTransactions # <<>>
  /\ customers' = ApplyQueue(customers, pendingCustomers, now)
  /\ transactions' = ApplyQueue(transactions, pendingTransactions, now)
  /\ effects' = (IF pendingCustomers # <<>> THEN <<"saveCustomers">> ELSE <<>>)
  /\ pendingCustomers' = <<>>
  /\ pendingTransactions' = <<>>
  /\ UNCHANGED <<storage, now, notice>>
  /\ exported' = NoExport

Render ==
  /\ effects = <<>>
  /\ pendingCustomers # <<>> \/ pendingTransactions # <<>>
  /\ customers' = ApplyQueue(customers, pendingCustomers, now)
  /\ transactions' = ApplyQueue(transactions, pendingTransactions, now)
  /\ effects' = (IF pendingCustomers # <<>> THEN <<"saveCustomers">> ELSE <<>>)
                \o (IF pendingTransactions # <<>> THEN <<"saveTransactions">> ELSE <<>>)
  /\ pendingCustomers' = <<>>
  /\ pendingTransactions' = <<>>
  /\ UNCHANGED <<storage, now, notice>>
  /\ exported' = NoExport

LoadEffect ==
  /\ effects # <<>> /\ Head(effects) = "load"
  /\ effects' = Tail(effects)
  /\ pendingCustomers' =
       IF storage.customers.has
         THEN Append(pendingCustomers, [f |-> "set", a |-> storage.customers.v])
         ELSE pendingCustomers
  /\ pendingTransactions' =
       IF storage.transactions.has
         THEN Append(pendingTransactions, [f |-> "set", a |-> storage.transactions.v])
         ELSE pendingTransactions
  /\ UNCHANGED <<customers, transactions, storage, now, notice, exported>>

SaveCustomersEffect ==
  /\ effects # <<>> /\ Head(effects) = "saveCustomers"
  /\ effects' = Tail(effects)
  /\ storage' = [storage EXCEPT !.customers = Item(JsonCustomers(customers))]
  /\ UNCHANGED <<customers, transactions, pendingCustomers, pendingTransactions,
                 now, notice, exported>>

SaveTransactionsEffect ==
  /\ effects # <<>> /\ Head(effects) = "saveTransactions"
  /\ effects' = Tail(effects)
  /\ storage' = [storage EXCEPT !.transactions = Item(JsonTransactions(transactions))]
  /\ UNCHANGED <<customers, transactions, pendingCustomers, pendingTransactions,
                 now, notice, exported>>

\* The clock: Date.now() never goes back; two readings can be equal. A render
\* and its effects follow their handler within the same task.
Tick ==
  /\ Idle
  /\ now < MaxClock
  /\ now' = now + 1
  /\ UNCHANGED <<customers, transactions, pendingCustomers, pendingTransactions,
                 effects, storage, notice, exported>>

\* One step of the page, the form fields drawn from the given sets.
NextOver(names, openings, amounts, dates) ==
  \/ \E name \in names, opening \in openings : handleCustomerSubmit(name, opening)
  \/ \E customerId \in CustomerIdInputs, type \in Types,
        amountInput \in amounts, dateInput \in dates :
       handleTransactionSubmit(customerId, type, amountInput, dateInput)
  \/ \E customerId \in CustomerIdInputs : deleteCustomer(customerId)
  \/ Render
  \/ LoadEffect
  \/ SaveCustomersEffect
  \/ SaveTransactionsEffect
  \/ Tick

\* The forms filled in as the markup asks: a name, a positive amount.
Next == NextOver({"A"}, OpeningInputs, {"2"}, DateInputs)

Spec == Init /\ [][Next]_vars

\* The same page, the transaction form submitted with any amount.
NextAmounts == NextOver({"A"}, {"5"}, AmountInputs, DateInputs)

SpecAmounts == Init /\ [][NextAmounts]_vars

\* The same page, the customer form submitted with and without a name.
NextNames == NextOver(Names, {"5"}, {"2"}, DateInputs)

SpecNames == Init /\ [][NextNames]_vars

\* The same page, the transaction form submitted with and without a date.
NextDates == NextOver({"A"}, {"5"}, {"2"}, {NoDate, 0, 1})

SpecDates == Init /\ [][NextDates]_vars

\* React runs every scheduled render and every scheduled passive effect; the
\* user is free never to submit again.
NextLive == NextOver({"A"}, {"5"}, {"2"}, DateInputs)

SpecLive ==
  /\ Init /\ [][NextLive]_vars
  /\ WF_vars(Render)
  /\ WF_vars(LoadEffect)
  /\ WF_vars(SaveCustomersEffect)
  /\ WF_vars(SaveTransactionsEffect)

\* The same page, submit events dispatched back to back: a second
\* handleTransactionSubmit runs in the closure of the render the first one ran
\* in, before the queued updates are applied.
NextBatched ==
  \/ Next
  \/ \E customerId \in CustomerIdInputs, type \in Types,
        amountInput \in {"2"}, dateInput \in DateInputs :
       submitTransaction(customerId, type, amountInput, dateInput)

SpecBatched == Init /\ [][NextBatched]_vars

\* The same page with the Export button.
NextExport == Next \/ exportData

SpecExport == Init /\ [][NextExport]_vars

(* ------------------------- the balance engine ------------------------- *)
\* debit = +amount, credit = -amount
signedAmount(t) == IF t.type = "debit" THEN t.amount ELSE Minus(0, t.amount)

\* transactions.filter(t => t.customerId === id), in insertion order
History(ts, id) == LET mine(t) == t.customerId = id IN SelectSeq(ts, mine)

\* The left-to-right fold of the signed amounts, starting from the opening balance.
RECURSIVE recomputeBalance(_, _)
recomputeBalance(openingBalance, orderedTransactions) ==
  IF orderedTransactions = <<>> THEN openingBalance
  ELSE recomputeBalance(Plus(openingBalance, signedAmount(Head(orderedTransactions))),
                        Tail(orderedTransactions))

HasCustomer(cs, id) == \E i \in 1..Len(cs) : cs[i].id = id
HasTransactions(ts, id) == \E i \in 1..Len(ts) : ts[i].customerId = id

\* A render commits the queued updates.
Commit ==
  /\ pendingCustomers # <<>> \/ pendingTransactions # <<>>
  /\ pendingCustomers' = <<>> /\ pendingTransactions' = <<>>

UniqueCustomerIds ==
  \A i, j \in 1..Len(customers) : i # j => customers[i].id # customers[j].id

UniqueTransactionIds ==
  \A i, j \in 1..Len(transactions) : i # j => transactions[i].id # transactions[j].id

(* ------------------------------- claims ------------------------------- *)

\* C1: in every reachable state every customer's balance equals its opening
\* balance plus the signed sum of the transactions carrying its id, folded
\* left to right.
C1_BalanceEqualsRecompute ==
  \A i \in 1..Len(customers) :
    NumEq(customers[i].balance,
          recomputeBalance(customers[i].openingBalance,
                           History(transactions, customers[i].id)))

\* C2: in every reachable state, along each customer's history in insertion
\* order, the first running balance is the opening balance plus the first
\* signed amount, and each later one is the previous running balance plus
\* its own signed amount.
C2_RunningBalanceChain ==
  \A i \in 1..Len(customers) :
    LET h == History(transactions, customers[i].id) IN
      \A n \in 1..Len(h) :
        NumEq(h[n].balance,
              Plus(IF n = 1 THEN customers[i].openingBalance ELSE h[n - 1].balance,
                   signedAmount(h[n])))

\* The updaters deleteCustomer(id) queues are waiting for the render.
DeletePending(id) ==
  /\ \E i \in 1..Len(pendingCustomers) :
       pendingCustomers[i].f = "removeCustomer" /\ pendingCustomers[i].a = id
  /\ \E i \in 1..Len(pendingTransactions) :
       pendingTransactions[i].f = "removeTransactions" /\ pendingTransactions[i].a = id

\* C3: once the render after deleteCustomer(id) has committed, no customer
\* has that id and no transaction has it as customerId; and no step makes
\* one of the two collections lose the id while the other still holds it.
C3_DeleteAtomic ==
  [][\A id \in CustomerIdInputs :
       /\ deleteCustomer(id) => DeletePending(id)' /\ UNCHANGED <<customers, transactions>>
       /\ (DeletePending(id) /\ Commit) =>
            ~HasCustomer(customers', id) /\ ~HasTransactions(transactions', id)
       /\ (HasCustomer(customers, id) /\ ~HasCustomer(customers', id)) =>
            ~HasTransactions(transactions', id)
       /\ (HasTransactions(transactions, id) /\ ~HasTransactions(transactions', id)) =>
            ~HasCustomer(customers', id)]_vars

\* A delete of a customer with transactions has just been committed: the
\* store still lists both, the collections list neither.
C3_Witness ==
  /\ effects = <<"saveCustomers", "saveTransactions">>
  /\ \E id \in CustomerIdInputs :
       /\ HasCustomer(storage.customers.v, id)
       /\ HasTransactions(storage.transactions.v, id)
       /\ ~HasCustomer(customers, id)
       /\ ~HasTransactions(transactions, id)
       /\ customers # <<>>

\* C4: recordTransaction with a customerId no customer carries changes
\* neither collection, queues nothing, and shows an error to the caller.
C4_UnknownCustomerReported ==
  [][\A customerId \in CustomerIdInputs, type \in Types,
        amountInput \in AmountInputs, dateInput \in DateInputs :
       (/\ handleTransactionSubmit(customerId, type, amountInput, dateInput)
        /\ FindIndex(customers, customerId) = 0)
       => /\ UNCHANGED <<customers, transactions, pendingCustomers, pendingTransactions>>
          /\ notice' = "error"]_vars

\* C5: recordTransaction for an existing customer with an amount that is
\* zero or negative shows an error and changes neither collection: nothing
\* is queued for the render.
C5_NonPositiveAmountRejected ==
  [][\A customerId \in CustomerIdInputs, type \in Types,
        amountInput \in AmountInputs, dateInput \in DateInputs :
       (/\ handleTransactionSubmit(customerId, type, amountInput, dateInput)
        /\ FindIndex(customers, customerId) # 0
        /\ IsNum(parseFloat(amountInput)) /\ parseFloat(amountInput) <= 0)
       => /\ UNCHANGED <<customers, transactions, pendingCustomers, pendingTransactions>>
          /\ notice' = "error"]_vars

\* The record a transaction submitted for customerId is booked on: the first
\* one carrying it.
RecordPending(k) ==
  /\ k # 0
  /\ \E i \in 1..Len(pendingCustomers) :
       /\ pendingCustomers[i].f = "setBalance"
       /\ k = FindIndex(customers, pendingCustomers[i].a.id)

\* C6: when a transaction recorded for customer A is committed, every other
\* customer record B is unchanged and B's history has gained nothing.
C6_NoCrossCustomerLeak ==
  [][\A a, b \in 1..Len(customers) :
       (a # b /\ RecordPending(a) /\ Commit) =>
         /\ Len(customers') = Len(customers)
         /\ customers'[b] = customers[b]
         /\ History(transactions', customers[b].id) = History(transactions, customers[b].id)]_vars

\* The updater handleCustomerSubmit queues is the only one waiting.
CreatePending ==
  /\ Len(pendingCustomers) = 1
  /\ pendingCustomers[1].f = "append"
  /\ pendingTransactions = <<>>

\* C7: createCustomer queues exactly one new customer whose balance is its
\* opening balance; the render appends it at the end of the customer
\* collection, every existing record and the transaction collection unchanged.
C7_CreateAppendsOne ==
  [][/\ (\E name \in Names, opening \in OpeningInputs : handleCustomerSubmit(name, opening))
        => /\ CreatePending'
           /\ NumEq(pendingCustomers'[1].a.balance, pendingCustomers'[1].a.openingBalance)
           /\ UNCHANGED <<customers, transactions>>
     /\ (CreatePending /\ Commit)
        => /\ Len(customers') = Len(customers) + 1
           /\ \A i \in 1..Len(customers) : customers'[i] = customers[i]
           /\ customers'[Len(customers')] = pendingCustomers[1].a
           /\ NumEq(customers'[Len(customers')].balance,
                    customers'[Len(customers')].openingBalance)
           /\ transactions' = transactions]_vars

\* A create has just been committed after other customers and transactions
\* were there: only the customers key is left to save.
C7_Witness ==
  /\ effects = <<"saveCustomers">>
  /\ Len(customers) = Len(storage.customers.v) + 1
  /\ Len(customers) >= 2
  /\ transactions # <<>>
  /\ customers[Len(customers)].openingBalance = 5
  /\ customers[Len(customers)].balance = 5

\* C8: createCustomer with an empty name shows an error and queues nothing,
\* and no customer with an empty name is ever in the collection.
C8_EmptyNameRejected ==
  [][/\ \A opening \in OpeningInputs :
          handleCustomerSubmit("", opening)
          => notice' = "error" /\ UNCHANGED <<customers, pendingCustomers>>
     /\ \A i \in 1..Len(customers') : customers'[i].name # ""]_vars

\* C9: in every reachable state no two customers of the collection have the
\* same id, whatever the non-decreasing clock readings were.
C9_CustomerIdsUnique == UniqueCustomerIds

\* C10: in every reachable state no two transactions of the collection have
\* the same id, whether of one customer or of two.
C10_TransactionIdsUnique == UniqueTransactionIds

\* Every transaction of ts belongs to a customer of cs.
NoOrphans(cs, ts) == \A i \in 1..Len(ts) : HasCustomer(cs, ts[i].customerId)

\* C11: at every moment, between the two storage writes of a mutation too,
\* every transaction under the persisted `transactions` key has the id of a
\* customer under the persisted `customers` key, and every transaction in
\* memory the id of a customer in memory.
C11_NoOrphansAtRest ==
  /\ NoOrphans(storage.customers.v, storage.transactions.v)
  /\ NoOrphans(customers, transactions)

IsPrefix(s, t) == Len(s) <= Len(t) /\ SubSeq(t, 1, Len(s)) = s

\* C12: the history of a customer (the transactions filtered by customerId)
\* keeps the order of recording whatever the date fields say: a recorded
\* transaction goes to the end of the history, every other step keeps the
\* history as a prefix or, deleting the customer, empties it; and the
\* history of a customer without transactions is the empty sequence.
C12_HistoryInRecordedOrder ==
  [][\A id \in CustomerIdInputs :
       LET h == History(transactions, id)
           hNext == History(transactions', id)
       IN /\ IsPrefix(h, hNext) \/ (DeletePending(id) /\ hNext = <<>>)
          /\ \A i \in 1..Len(pendingTransactions) :
               (/\ Commit
                /\ pendingTransactions[i].f = "append"
                /\ pendingTransactions[i].a.customerId = id)
               => hNext = Append(h, pendingTransactions[i].a)
          /\ ~HasTransactions(transactions', id) => hNext = <<>>]_vars

\* A history whose second transaction is dated before its first, next to a
\* customer without any transaction.
C12_Witness ==
  /\ \E id \in CustomerIdInputs :
       LET h == History(transactions, id)
       IN Len(h) = 2 /\ h[2].date < h[1].date
  /\ \E i \in 1..Len(customers) : History(transactions, customers[i].id) = <<>>

\* C13: exportData changes neither collection, nothing queued and nothing
\* stored; and an export taken when another was taken since the last change
\* of the collections carries the same customers and transactions.
C13_ExportIdempotent ==
  [][exportData =>
       /\ UNCHANGED <<customers, transactions, pendingCustomers, pendingTransactions,
                      storage>>
       /\ exported.n > 0 =>
            /\ exported'.customers = exported.customers
            /\ exported'.transactions = exported.transactions]_vars

\* A second export of non-empty collections, taken at a later clock reading
\* than the customer on record was created at.
C13_Witness ==
  /\ exported.n = 2
  /\ exported.customers # <<>>
  /\ exported.transactions # <<>>
  /\ exported.exportDate = MaxClock

\* C14: when a recorded transaction is committed, the lastTransaction of the
\* customer it was booked on is the calendar day of the clock at that
\* moment, whatever date the transaction itself carries.
C14_LastTransactionIsProcessingDate ==
  [][\A k \in 1..Len(customers) :
       (RecordPending(k) /\ Commit) =>
         customers'[k].lastTransaction = LocaleDate(now)]_vars

\* A customer last touched today whose latest transaction carries another
\* date, earlier or later.
C14_Witness ==
  \E i \in 1..Len(customers) :
    LET h == History(transactions, customers[i].id)
    IN /\ h # <<>>
       /\ customers[i].lastTransaction = LocaleDate(now)
       /\ h[Len(h)].date # customers[i].lastTransaction

\* ts without the transactions of customer id, the others in their order.
WithoutCustomer(ts, id) == LET other(t) == t.customerId # id IN SelectSeq(ts, other)

\* C15: every step either keeps the transaction collection as a prefix of
\* the new one (nothing removed, altered or reordered, new ones at the end)
\* or is the commit of deleteCustomer(id) and removes exactly the
\* transactions whose customerId is id.
C15_TransactionsAppendOnly ==
  [][\/ IsPrefix(transactions, transactions')
     \/ \E id \in CustomerIdInputs :
          /\ DeletePending(id) /\ Commit
          /\ transactions' = WithoutCustomer(transactions, id)]_vars

\* A delete has just been committed and the transaction of another customer
\* has survived it: the store still lists both transactions.
C15_Witness ==
  /\ effects = <<"saveCustomers", "saveTransactions">>
  /\ Len(storage.transactions.v) = 2
  /\ Len(transactions) = 1
  /\ \E i \in 1..2 : storage.transactions.v[i] = transactions[1]

\* cs without the customers carrying id, the others in their order.
WithoutId(cs, id) == LET other(c) == c.id # id IN SelectSeq(cs, other)

\* C16: no step changes the openingBalance of a customer: every step either
\* keeps each customer at its place with its id and openingBalance, or is
\* the commit of deleteCustomer(id) and only removes records.
C16_OpeningBalanceImmutable ==
  [][\/ /\ Len(customers') >= Len(customers)
        /\ \A i \in 1..Len(customers) :
             /\ customers'[i].id = customers[i].id
             /\ customers'[i].openingBalance = customers[i].openingBalance
     \/ \E id \in CustomerIdInputs :
          /\ DeletePending(id) /\ Commit
          /\ customers' = WithoutId(customers, id)]_vars

\* A customer created in this session with opening balance 5 whose balance
\* has moved away from it.
C16_Witness ==
  \E i \in 1..Len(customers) :
    /\ customers[i].id # IdOf(0)
    /\ customers[i].openingBalance = 5
    /\ customers[i].balance # 5
    /\ HasTransactions(transactions, customers[i].id)

\* C17: a createCustomer whose opening balance does not parse and a
\* recordTransaction whose amount does not parse queue nothing and change
\* nothing, and no stored balance, openingBalance or amount is ever NaN.
C17_UnparseableRejected ==
  [][/\ \A name \in Names, opening \in NumberStrings :
          (handleCustomerSubmit(name, opening) /\ IsNaN(parseFloat(opening)))
          => UNCHANGED <<customers, transactions, pendingCustomers, pendingTransactions>>
     /\ \A customerId \in CustomerIdInputs, type \in Types,
           amountInput \in NumberStrings, dateInput \in DateInputs :
          (/\ handleTransactionSubmit(customerId, type, amountInput, dateInput)
           /\ IsNaN(parseFloat(amountInput)))
          => UNCHANGED <<customers, transactions, pendingCustomers, pendingTransactions>>
     /\ \A i \in 1..Len(customers') :
          ~IsNaN(customers'[i].balance) /\ ~IsNaN(customers'[i].openingBalance)
     /\ \A i \in 1..Len(transactions') :
          ~IsNaN(transactions'[i].balance) /\ ~IsNaN(transactions'[i].amount)]_vars

\* Both keys hold the serialization of the collections in memory.
Synced ==
  /\ storage.customers = Item(JsonCustomers(customers))
  /\ storage.transactions = Item(JsonTransactions(transactions))

\* C18: every queued mutation is eventually followed by the writes that make
\* both persisted keys equal the collections in memory, and a
\* recordTransaction for an unknown customer writes nothing and schedules
\* nothing.
C18_MutationsPersisted ==
  /\ (pendingCustomers # <<>> \/ pendingTransactions # <<>>) ~> (Idle /\ Synced)
  /\ [][\A customerId \in CustomerIdInputs, type \in Types,
           amountInput \in NumberStrings, dateInput \in DateInputs :
          (/\ handleTransactionSubmit(customerId, type, amountInput, dateInput)
           /\ ~HasCustomer(customers, customerId))
          => (UNCHANGED storage /\ Idle')]_vars

C18_Witness ==
  /\ Idle /\ Synced /\ notice = "success"
  /\ \E i \in 1..Len(customers) :
       /\ customers[i].id # IdOf(0)
       /\ HasTransactions(transactions, customers[i].id)
       /\ storage.customers.v[i].balance = customers[i].balance

\* C19: until the first user operation succeeds, no step changes the
\* content of either persisted key (a missing key counts as an empty
\* collection): mounting never overwrites what was stored.
C19_MountKeepsStorage ==
  [][notice = "none"
     => /\ storage'.customers.v = storage.customers.v
        /\ storage'.transactions.v = storage.transactions.v]_vars

\* The transactions queued for the customer and not yet rendered, in order.
PendingRecorded(id) ==
  LET mine(u) == u.f = "append" /\ u.a.customerId = id
      queued == SelectSeq(pendingTransactions, mine)
  IN [i \in 1..Len(queued) |-> queued[i].a]

\* C20: when the render applies the transactions queued for a customer, the
\* customer's balance, and the running balance of the last of them, is the
\* balance before the render moved by every queued amount.
C20_NoLostUpdate ==
  [][\A k \in 1..Len(customers) :
       (/\ Commit
        /\ RecordPending(k)
        /\ \A i \in 1..Len(pendingCustomers) : pendingCustomers[i].f = "setBalance")
       => LET rec == PendingRecorded(customers[k].id)
              all == recomputeBalance(customers[k].balance, rec)
          IN /\ customers'[k].balance = all
             /\ rec[Len(rec)].balance = all]_vars

\* C21: the render that commits deleteCustomer(id) keeps every customer with
\* another id and every transaction of another customer, unchanged and in
\* the same order, and removes exactly one customer record.
C21_DeleteRemovesOne ==
  [][\A id \in CustomerIdInputs :
       (DeletePending(id) /\ Commit)
       => /\ customers' = WithoutId(customers, id)
          /\ transactions' = WithoutCustomer(transactions, id)
          /\ Len(customers') = Len(customers) - 1]_vars

\* C22: in every reachable state of the two storage keys, each persisted
\* customer's balance is its opening balance plus the signed amounts of the
\* persisted transactions with its customerId.
C22_StoreBalanceConsistent ==
  \A i \in 1..Len(storage.customers.v) :
    LET c == storage.customers.v[i]
    IN NumEq(c.balance,
             recomputeBalance(c.openingBalance, History(storage.transactions.v, c.id)))

====
